---- MODULE Spec2Model ----
(***************************************************************************)
(* Cloudflare status monitor for ICN (Seoul): a Worker with an HTTP        *)
(* handler and a scheduled handler, an upstream status API client, a       *)
(* keyword filter and a Slack notifier.                                    *)
(*                                                                         *)
(* JavaScript values are modelled as follows.  Strings are TLA+ strings    *)
(* (Len, SubSeq and \o apply to them).  Objects are records; an absent     *)
(* property is a field missing from the record's DOMAIN.  Arrays are       *)
(* sequences.  A call that may throw returns a completion record:          *)
(* [threw |-> FALSE, value, trace] or [threw |-> TRUE, error, trace],      *)
(* where trace is the sequence of observable events (requests issued,      *)
(* console.error lines, checks entered) up to that point.                  *)
(***************************************************************************)
EXTENDS Integers, Sequences, FiniteSets, TLC

VARIABLES
    variant,     \* which entry module is deployed: "sixHourly" or "bothHourly"
    invocation,  \* the event being handled: [kind |-> "none"] when idle
    world,       \* upstream documents and network outcomes of the invocation
    trace,       \* events of the invocation, in order
    outcome,     \* how the handler settled: a response, a return, or a rejection
    input,       \* argument of the function under study (function specifications)
    output       \* its result

vars == <<variant, invocation, world, trace, outcome, input, output>>

-----------------------------------------------------------------------------
(* String primitives of the JavaScript runtime used by the sources. *)

Has(o, f) == f \in DOMAIN o

CharAt(s, i) == SubSeq(s, i, i)

LowerChar(c) ==
    CASE c = "A" -> "a" [] c = "B" -> "b" [] c = "C" -> "c" [] c = "D" -> "d"
      [] c = "E" -> "e" [] c = "F" -> "f" [] c = "G" -> "g" [] c = "H" -> "h"
      [] c = "I" -> "i" [] c = "J" -> "j" [] c = "K" -> "k" [] c = "L" -> "l"
      [] c = "M" -> "m" [] c = "N" -> "n" [] c = "O" -> "o" [] c = "P" -> "p"
      [] c = "Q" -> "q" [] c = "R" -> "r" [] c = "S" -> "s" [] c = "T" -> "t"
      [] c = "U" -> "u" [] c = "V" -> "v" [] c = "W" -> "w" [] c = "X" -> "x"
      [] c = "Y" -> "y" [] c = "Z" -> "z" [] OTHER -> c

RECURSIVE toLowerCase(_)
toLowerCase(s) ==
    IF Len(s) = 0 THEN ""
    ELSE LowerChar(CharAt(s, 1)) \o toLowerCase(SubSeq(s, 2, Len(s)))

\* String.prototype.includes
includes(s, k) ==
    \E i \in 1..(Len(s) - Len(k) + 1) : SubSeq(s, i, i + Len(k) - 1) = k

\* String.prototype.endsWith
endsWith(s, k) ==
    /\ Len(k) <= Len(s)
    /\ SubSeq(s, Len(s) - Len(k) + 1, Len(s)) = k

\* Index of the first occurrence of k in s, 0 when there is none.
IndexOf(s, k) ==
    IF includes(s, k)
    THEN CHOOSE i \in 1..(Len(s) - Len(k) + 1) :
            /\ SubSeq(s, i, i + Len(k) - 1) = k
            /\ \A j \in 1..(i - 1) : SubSeq(s, j, j + Len(k) - 1) # k
    ELSE 0

\* String.prototype.replace with a string pattern: the first occurrence only.
replace(s, pat, by) ==
    LET i == IndexOf(s, pat) IN
    IF i = 0 THEN s
    ELSE SubSeq(s, 1, i - 1) \o by \o SubSeq(s, i + Len(pat), Len(s))

\* Faulty variant: slice(-n), the last n elements.
slice0_Last(s, n) == SubSeq(s, (IF Len(s) < n THEN 0 ELSE Len(s) - n) + 1, Len(s))

\* Array.prototype.slice(0, n)
slice0(s, n) == SubSeq(s, 1, IF Len(s) < n THEN Len(s) ELSE n)

\* Array.prototype.join
RECURSIVE join(_, _)
join(s, sep) ==
    IF s = <<>> THEN ""
    ELSE IF Len(s) = 1 THEN s[1]
    ELSE s[1] \o sep \o join(Tail(s), sep)

\* Concatenation of a sequence of sequences (forEach pushing blocks).
RECURSIVE Flatten(_)
Flatten(ss) == IF ss = <<>> THEN <<>> ELSE Head(ss) \o Flatten(Tail(ss))

-----------------------------------------------------------------------------
(* Completion records. *)

\* const x = e; K(x): e is evaluated once and K applied to its value.
Let(e, K(_)) == CHOOSE r \in {K(x) : x \in {e}} : TRUE

Return(v, t) == [threw |-> FALSE, value |-> v, trace |-> t]
Throw(e, t)  == [threw |-> TRUE, error |-> e, trace |-> t]
Error(msg)   == [name |-> "Error", message |-> msg]

ConsoleError(label) == [type |-> "console.error", label |-> label]

-----------------------------------------------------------------------------
(* config/constants.js *)

API_BASE_URL == "https://www.cloudflarestatus.com/api/v2"

ENDPOINTS ==
    [components |-> API_BASE_URL \o "/status.json",
     incidents  |-> API_BASE_URL \o "/incidents/unresolved.json"]

ICN_KEYWORDS == <<"icn", "seoul", "korea", "south korea">>

SLACK_CONFIG == [webhookEnvKey |-> "SLACK_WEBHOOK_URL"]

-----------------------------------------------------------------------------
(* The network.  upstream maps each URL of the status API to the document  *)
(* served there; net gives, per call site, how the request ends: an HTTP   *)
(* status, or 0 when fetch itself rejects (network failure).               *)

COMPONENTS_URL == API_BASE_URL \o "/components.json"
STATUS_URL     == API_BASE_URL \o "/status.json"
INCIDENTS_URL  == API_BASE_URL \o "/incidents/unresolved.json"

StatusText(code) ==
    CASE code = 200 -> "OK"
      [] code = 404 -> "Not Found"
      [] code = 500 -> "Internal Server Error"
      [] code = 503 -> "Service Unavailable"
      [] OTHER -> ""

\* The global fetch(url, init): one request, no retry.  A Response has
\* ok = (200 <= status <= 299); its body is the document at the URL.
fetch(w, site, method, url, body, t) ==
    LET t1 == Append(t, [type |-> "fetch", site |-> site, method |-> method,
                         url |-> url, body |-> body])
        code == w.net[site]
    IN  IF code = 0
        THEN Throw([name |-> "TypeError", message |-> "Network connection lost"], t1)
        ELSE Return([ok |-> code \in 200..299, status |-> code,
                     statusText |-> StatusText(code),
                     json |-> IF url \in DOMAIN w.upstream
                              THEN w.upstream[url] ELSE [ok |-> TRUE]], t1)

-----------------------------------------------------------------------------
(* api/cloudflareStatus.js *)

\* JSON.parse(JSON.stringify(data)): a fresh object with the same content
\* (the data is parsed JSON, so the round trip preserves it).
JSONClone(data) == [fresh |-> TRUE, obj |-> data]

\* Faulty variant: only the name is matched, the description is ignored.
filterByKeywords_NameOnly(data, keywords) ==
    LET Keep(component) ==
            \E k \in 1..Len(keywords) :
                includes(toLowerCase(component.name), keywords[k])
    IN  [filteredData |->
            IF Has(data, "components")
            THEN [data EXCEPT !.components = SelectSeq(data.components, Keep)]
            ELSE data,
         data |-> data]

\* The body of filterForICN with the keyword list as a parameter.  Returns
\* the filtered object, and the caller's object as it is after the call
\* (the assignment to filteredData.components lands in whichever object
\* filteredData refers to).
filterByKeywords(data, keywords) ==
    LET copy == JSONClone(data)
        filteredData == copy.obj
        Keep(component) ==
            LET name == toLowerCase(component.name)
                description ==
                    toLowerCase(IF Has(component, "description")
                                THEN component.description ELSE "")
            IN  \E k \in 1..Len(keywords) :
                    includes(name, keywords[k]) \/ includes(description, keywords[k])
        result ==
            IF Has(filteredData, "components")
            THEN [filteredData EXCEPT !.components = SelectSeq(filteredData.components, Keep)]
            ELSE filteredData
    IN  [filteredData |-> result,
         data |-> IF copy.fresh THEN data ELSE result]

filterForICN(data) == filterByKeywords(data, ICN_KEYWORDS)

\* { ...statusData, components: componentsData.components || [] }
Combine(statusData, componentsData) ==
    [f \in DOMAIN statusData \cup {"components"} |->
        IF f = "components"
        THEN (IF Has(componentsData, "components") THEN componentsData.components ELSE <<>>)
        ELSE statusData[f]]

\* Faulty variant: the components response is not tested for success.
fetchICNComponentsStatus_NoOkTest(w, t) ==
    LET caught(r) ==
            Throw(r.error,
                  Append(r.trace, ConsoleError("Error fetching ICN components status:")))
    IN
    Let(fetch(w, "components", "GET", ENDPOINTS.components, "", t),
        LAMBDA componentsResponse :
    IF componentsResponse.threw THEN caught(componentsResponse)
    ELSE
    Let(fetch(w, "status", "GET", API_BASE_URL \o "/status.json", "",
              componentsResponse.trace),
        LAMBDA statusResponse :
    IF statusResponse.threw THEN caught(statusResponse)
    ELSE IF ~statusResponse.value.ok
    THEN caught(Throw(Error("Failed to fetch status data: "
                            \o ToString(statusResponse.value.status) \o " "
                            \o statusResponse.value.statusText),
                      statusResponse.trace))
    ELSE Return(filterForICN(Combine(statusResponse.value.json,
                                     componentsResponse.value.json)).filteredData,
                statusResponse.trace)))

fetchICNComponentsStatus(w, t) ==
    LET caught(r) ==
            Throw(r.error,
                  Append(r.trace, ConsoleError("Error fetching ICN components status:")))
    IN
    Let(fetch(w, "components", "GET", ENDPOINTS.components, "", t),
        LAMBDA componentsResponse :
    IF componentsResponse.threw THEN caught(componentsResponse)
    ELSE IF ~componentsResponse.value.ok
    THEN caught(Throw(Error("Failed to fetch components data: "
                            \o ToString(componentsResponse.value.status) \o " "
                            \o componentsResponse.value.statusText),
                      componentsResponse.trace))
    ELSE
    Let(fetch(w, "status", "GET", API_BASE_URL \o "/status.json", "",
              componentsResponse.trace),
        LAMBDA statusResponse :
    IF statusResponse.threw THEN caught(statusResponse)
    ELSE IF ~statusResponse.value.ok
    THEN caught(Throw(Error("Failed to fetch status data: "
                            \o ToString(statusResponse.value.status) \o " "
                            \o statusResponse.value.statusText),
                      statusResponse.trace))
    ELSE
    LET componentsData == componentsResponse.value.json
        statusData == statusResponse.value.json
        combinedData == Combine(statusData, componentsData)
    IN  Return(filterForICN(combinedData).filteredData, statusResponse.trace)))

fetchUnresolvedIncidents(w, t) ==
    LET caught(r) ==
            Throw(r.error,
                  Append(r.trace, ConsoleError("Error fetching unresolved incidents:")))
    IN
    Let(fetch(w, "incidents", "GET", ENDPOINTS.incidents, "", t),
        LAMBDA response :
    IF response.threw THEN caught(response)
    ELSE IF ~response.value.ok
    THEN caught(Throw(Error("Failed to fetch incidents data: "
                            \o ToString(response.value.status) \o " "
                            \o response.value.statusText),
                      response.trace))
    ELSE Return(response.value.json, response.trace))

-----
(* notifications/slack.js *)

\* The glyphs of the messages, by name.
GLYPH_OK       == "(check-mark)"
GLYPH_WARNING  == "(warning)"
GLYPH_ERROR    == "(cross-mark)"
GLYPH_SEARCH   == "(magnifier-left)"
GLYPH_FOUND    == "(magnifier-right)"
GLYPH_EYES     == "(eyes)"
GLYPH_MEMO     == "(memo)"

Header(text)  == [type |-> "header", text |-> text]
Divider       == [type |-> "divider"]
Section(text) == [type |-> "section", text |-> text]
Context(text) == [type |-> "context", text |-> text]

\* new Date(ts).toLocaleString(): the timestamp in the runtime's locale format.
toLocaleString(ts) == "locale(" \o ts \o ")"

\* A string property read where a falsy value selects the fallback: an absent
\* property and the empty string behave alike.
Str(o, f) == IF Has(o, f) THEN o[f] ELSE ""

getStatusEmoji(status) ==
    IF status = "" THEN GLYPH_WARNING
    ELSE LET lower == toLowerCase(status) IN
         CASE lower = "investigating" -> GLYPH_SEARCH
           [] lower = "identified"    -> GLYPH_FOUND
           [] lower = "monitoring"    -> GLYPH_EYES
           [] lower = "resolved"      -> GLYPH_OK
           [] lower = "postmortem"    -> GLYPH_MEMO
           [] OTHER                   -> GLYPH_WARNING

formatComponentsPayload(data, now) ==
    LET head == <<Header("Cloudflare ICN (Seoul) Status Update"), Divider>>
        overall ==
            IF Has(data, "status")
            THEN <<Section("*Overall Status:* " \o
                           (IF Str(data.status, "description") # ""
                            THEN data.status.description ELSE "Unknown"))>>
            ELSE <<>>
        Line(component) ==
            LET statusEmoji ==
                    IF component.status # "operational"
                    THEN (IF component.status = "degraded_performance"
                          THEN GLYPH_WARNING ELSE GLYPH_ERROR)
                    ELSE GLYPH_OK
            IN  Section(statusEmoji \o " *" \o component.name \o "*: "
                        \o replace(component.status, "_", " "))
        components ==
            IF Has(data, "components") /\ Len(data.components) > 0
            THEN <<Section("*ICN Components:*")>>
                 \o [i \in 1..Len(data.components) |-> Line(data.components[i])]
            ELSE <<Section("_No ICN components found_")>>
        stamp == <<Context("Last updated: " \o now)>>
    IN  [blocks |-> head \o overall \o components \o stamp,
         text |-> "Cloudflare ICN (Seoul) Status Update"]

formatIncidentsPayload(data, now) ==
    LET head == <<Header("Cloudflare Incident Alert"), Divider>>
        Blocks(incident) ==
            LET impactText ==
                    IF Str(incident, "impact") # ""
                    THEN "Impact: " \o incident.impact ELSE ""
                monitoringText ==
                    IF Has(incident, "monitoring") /\ incident.monitoring
                    THEN GLYPH_SEARCH \o " Being monitored" ELSE ""
                statusEmoji == getStatusEmoji(Str(incident, "status"))
                title ==
                    Section(statusEmoji \o " *" \o incident.name \o "*\n*Status:* "
                            \o (IF Str(incident, "status") # ""
                                THEN incident.status ELSE "Unknown")
                            \o (IF impactText # "" THEN "\n*" \o impactText \o "*" ELSE "")
                            \o (IF monitoringText # "" THEN "\n" \o monitoringText ELSE ""))
                timeline ==
                    IF Has(incident, "incident_updates") /\ Len(incident.incident_updates) > 0
                    THEN
                      LET updates == slice0(incident.incident_updates, 3)
                          Entry(index) ==     \* index is 0-based, as in forEach
                            LET update == updates[index + 1]
                                updateTime == toLocaleString(update.created_at)
                                updateStatus ==
                                    IF Str(update, "status") # ""
                                    THEN "[" \o update.status \o "]" ELSE ""
                            IN  <<Section((IF index = 0 THEN "*Latest Update:*"
                                           ELSE "*Update " \o ToString(Len(updates) - index) \o ":*")
                                          \o " " \o updateStatus \o "\n" \o update.body),
                                  Context("Updated: " \o updateTime)>>
                      IN  <<Section("*Incident Timeline:*")>>
                          \o Flatten([i \in 1..Len(updates) |-> Entry(i - 1)])
                          \o (IF Len(incident.incident_updates) > 3
                              THEN <<Context("_" \o ToString(Len(incident.incident_updates) - 3)
                                             \o " more updates not shown_")>>
                              ELSE <<>>)
                    ELSE <<>>
                affected ==
                    IF Has(incident, "components") /\ Len(incident.components) > 0
                    THEN <<Section("*Affected Components:* " \o
                             join([i \in 1..Len(incident.components) |->
                                      incident.components[i].name], ", "))>>
                    ELSE <<>>
            IN  <<title>> \o timeline \o affected \o <<Divider>>
        incidents ==
            IF Has(data, "incidents") /\ Len(data.incidents) > 0
            THEN Flatten([i \in 1..Len(data.incidents) |-> Blocks(data.incidents[i])])
            ELSE <<Section("_No active incidents reported_")>>
        stamp == <<Context("Last checked: " \o now)>>
    IN  [blocks |-> head \o incidents \o stamp,
         text |-> "Cloudflare Incident Alert"]

formatSlackPayload(data, type, now, t) ==
    IF type = "components" THEN Return(formatComponentsPayload(data, now), t)
    ELSE IF type = "incidents" THEN Return(formatIncidentsPayload(data, now), t)
    ELSE Throw(Error("Unknown notification type: " \o type), t)

\* Faulty variant: no try/catch around the delivery, a failure is thrown to the caller.
sendSlackNotification_NoCatch(env, data, type, w, t) ==
    IF Str(env, SLACK_CONFIG.webhookEnvKey) = ""
    THEN Return(FALSE, Append(t, ConsoleError("Slack webhook URL not configured")))
    ELSE
    Let(formatSlackPayload(data, type, w.now, t), LAMBDA payload :
    IF payload.threw THEN payload
    ELSE
    Let(fetch(w, "webhook:" \o type, "POST", Str(env, SLACK_CONFIG.webhookEnvKey),
              payload.value, payload.trace),
        LAMBDA response :
    IF response.threw THEN response
    ELSE IF ~response.value.ok
    THEN Throw(Error("Failed to send Slack notification: "
                     \o ToString(response.value.status) \o " "
                     \o response.value.statusText),
               response.trace)
    ELSE Return(TRUE, response.trace)))

sendSlackNotification(env, data, type, w, t) ==
    LET caught(r) ==
            Return(FALSE, Append(r.trace, ConsoleError("Error sending Slack notification:")))
        webhookUrl == Str(env, SLACK_CONFIG.webhookEnvKey)
    IN
    IF webhookUrl = ""
    THEN Return(FALSE, Append(t, ConsoleError("Slack webhook URL not configured")))
    ELSE
    Let(formatSlackPayload(data, type, w.now, t), LAMBDA payload :
    IF payload.threw THEN caught(payload)
    ELSE
    Let(fetch(w, "webhook:" \o type, "POST", webhookUrl, payload.value, payload.trace),
        LAMBDA response :
    IF response.threw THEN caught(response)
    ELSE IF ~response.value.ok
    THEN caught(Throw(Error("Failed to send Slack notification: "
                            \o ToString(response.value.status) \o " "
                            \o response.value.statusText),
                      response.trace))
    ELSE Return(TRUE, response.trace)))

-----
(* index.js, in its two versions: "sixHourly" (components every 6 hours,   *)
(* incidents hourly) and "bothHourly" (both checks on every firing).       *)

CheckEntered(name) == [type |-> "check", name |-> name]

\* componentsData.components && componentsData.components.some(c => c.status !== 'operational')
HasIssues(componentsData) ==
    /\ Has(componentsData, "components")
    /\ \E i \in 1..Len(componentsData.components) :
          componentsData.components[i].status # "operational"

ComponentsResult(componentsData, hasIssues) ==
    [status |-> "success", message |-> "ICN components status checked",
     hasIssues |-> hasIssues, data |-> componentsData]

\* checkICNComponents of the sixHourly version: notifies only on issues.
checkICNComponentsOnIssues(env, w, t) ==
    Let(fetchICNComponentsStatus(w, Append(t, CheckEntered("components"))),
        LAMBDA componentsData :
    IF componentsData.threw
    THEN Throw(componentsData.error,
               Append(componentsData.trace,
                      ConsoleError("Error checking ICN components status:")))
    ELSE
    Let(HasIssues(componentsData.value), LAMBDA hasIssues :
    Let(IF hasIssues
        THEN sendSlackNotification(env, componentsData.value, "components",
                                   w, componentsData.trace)
        ELSE Return(FALSE, componentsData.trace),
        LAMBDA sent :
    IF sent.threw
    THEN Throw(sent.error,
               Append(sent.trace, ConsoleError("Error checking ICN components status:")))
    ELSE Return(ComponentsResult(componentsData.value, hasIssues), sent.trace))))

\* checkICNComponents of the bothHourly version: always notifies.
checkICNComponentsAlways(env, w, t) ==
    Let(fetchICNComponentsStatus(w, Append(t, CheckEntered("components"))),
        LAMBDA componentsData :
    IF componentsData.threw
    THEN Throw(componentsData.error,
               Append(componentsData.trace,
                      ConsoleError("Error checking ICN components status:")))
    ELSE
    Let(HasIssues(componentsData.value), LAMBDA hasIssues :
    Let(sendSlackNotification(env, componentsData.value, "components",
                              w, componentsData.trace),
        LAMBDA sent :
    IF sent.threw
    THEN Throw(sent.error,
               Append(sent.trace, ConsoleError("Error checking ICN components status:")))
    ELSE Return(ComponentsResult(componentsData.value, hasIssues), sent.trace))))

checkICNComponents(v, env, w, t) ==
    IF v = "sixHourly" THEN checkICNComponentsOnIssues(env, w, t)
    ELSE checkICNComponentsAlways(env, w, t)

\* Faulty variant: the incidents notification is not gated on a non-empty listing.
checkUnresolvedIncidents_Ungated(env, w, t) ==
    Let(fetchUnresolvedIncidents(w, Append(t, CheckEntered("incidents"))),
        LAMBDA incidentsData :
    IF incidentsData.threw
    THEN Throw(incidentsData.error,
               Append(incidentsData.trace,
                      ConsoleError("Error checking unresolved incidents:")))
    ELSE
    Let(sendSlackNotification(env, incidentsData.value, "incidents",
                              w, incidentsData.trace),
        LAMBDA sent :
    Return([status |-> "success", message |-> "Unresolved incidents checked",
            incidentsCount |-> IF Has(incidentsData.value, "incidents")
                               THEN Len(incidentsData.value.incidents) ELSE 0,
            data |-> incidentsData.value],
           sent.trace)))

\* checkUnresolvedIncidents, the same in both versions.
checkUnresolvedIncidents(env, w, t) ==
    Let(fetchUnresolvedIncidents(w, Append(t, CheckEntered("incidents"))),
        LAMBDA incidentsData :
    IF incidentsData.threw
    THEN Throw(incidentsData.error,
               Append(incidentsData.trace,
                      ConsoleError("Error checking unresolved incidents:")))
    ELSE
    Let(IF Has(incidentsData.value, "incidents") /\ Len(incidentsData.value.incidents) > 0
        THEN sendSlackNotification(env, incidentsData.value, "incidents",
                                   w, incidentsData.trace)
        ELSE Return(FALSE, incidentsData.trace),
        LAMBDA sent :
    IF sent.threw
    THEN Throw(sent.error,
               Append(sent.trace, ConsoleError("Error checking unresolved incidents:")))
    ELSE Return([status |-> "success", message |-> "Unresolved incidents checked",
                 incidentsCount |-> IF Has(incidentsData.value, "incidents")
                                    THEN Len(incidentsData.value.incidents) ELSE 0,
                 data |-> incidentsData.value],
                sent.trace)))

corsHeaders ==
    ("Access-Control-Allow-Origin" :> "*")
    @@ ("Access-Control-Allow-Methods" :> "GET, OPTIONS")
    @@ ("Access-Control-Allow-Headers" :> "Content-Type")

Response(status, contentType, body) ==
    [status |-> status,
     headers |-> IF contentType = "" THEN corsHeaders
                 ELSE corsHeaders @@ ("Content-Type" :> contentType),
     body |-> body]

StatusPage ==
    [status |-> "ok", message |-> "Cloudflare Status Monitor is running",
     endpoints |-> [checkComponents |-> "/check/components",
                    checkIncidents |-> "/check/incidents"]]

\* The catch of the HTTP handler.
RequestFailed(r) ==
    Return(Response(500, "application/json",
                    [error |-> "Failed to process request", message |-> r.error.message]),
           Append(r.trace, ConsoleError("Error processing request:")))

\* A check run from a route that answers with the check's result.
RouteCheck(check) ==
    Let(check, LAMBDA data :
    IF data.threw THEN RequestFailed(data)
    ELSE Return(Response(200, "application/json", data.value), data.trace))

\* /check/all of the bothHourly version.
RouteCheckAll(env, w, t) ==
    Let(checkICNComponentsAlways(env, w, t), LAMBDA componentsData :
    IF componentsData.threw THEN RequestFailed(componentsData)
    ELSE
    Let(checkUnresolvedIncidents(env, w, componentsData.trace), LAMBDA incidentsData :
    IF incidentsData.threw THEN RequestFailed(incidentsData)
    ELSE Return(Response(200, "application/json",
                         [status |-> "success",
                          message |-> "All checks completed and notifications sent",
                          components |-> componentsData.value,
                          incidents |-> incidentsData.value]),
                incidentsData.trace)))

\* Faulty variant: the method is not tested against GET, any method other
\* than OPTIONS is routed.
handleFetch_NoMethodTest(v, request, env, w) ==
    LET path == toLowerCase(request.path)
        t == <<>>
    IN
    IF request.method = "OPTIONS" THEN Return(Response(200, "", "null"), t)
    ELSE IF endsWith(path, "/check/components")
    THEN RouteCheck(checkICNComponents(v, env, w, t))
    ELSE IF endsWith(path, "/check/incidents")
    THEN RouteCheck(checkUnresolvedIncidents(env, w, t))
    ELSE IF v = "bothHourly" /\ endsWith(path, "/check/all")
    THEN RouteCheckAll(env, w, t)
    ELSE Return(Response(200, "application/json", StatusPage), t)

\* fetch(request, env, ctx) of either version; request.path is url.pathname.
handleFetch(v, request, env, w) ==
    LET path == toLowerCase(request.path)
        t == <<>>
    IN
    IF request.method = "OPTIONS" THEN Return(Response(200, "", "null"), t)
    ELSE IF request.method # "GET"
    THEN Return(Response(405, "text/plain", "Method not allowed"), t)
    ELSE IF endsWith(path, "/check/components")
    THEN RouteCheck(checkICNComponents(v, env, w, t))
    ELSE IF endsWith(path, "/check/incidents")
    THEN RouteCheck(checkUnresolvedIncidents(env, w, t))
    ELSE IF v = "bothHourly" /\ endsWith(path, "/check/all")
    THEN RouteCheckAll(env, w, t)
    ELSE Return(Response(200, "application/json", StatusPage), t)

\* scheduled(event, env, ctx) of the sixHourly version.
scheduledByCron(event, env, w) ==
    IF includes(event.cron, "*/6")
    THEN checkICNComponentsOnIssues(env, w, <<>>)
    ELSE checkUnresolvedIncidents(env, w, <<>>)

\* scheduled(event, env, ctx) of the bothHourly version.
scheduledBoth(event, env, w) ==
    Let(checkICNComponentsAlways(env, w, <<>>), LAMBDA components :
    IF components.threw THEN components
    ELSE checkUnresolvedIncidents(env, w, components.trace))

handleScheduled(v, event, env, w) ==
    IF v = "sixHourly" THEN scheduledByCron(event, env, w)
    ELSE scheduledBoth(event, env, w)

-----------------------------------------------------------------------------
(* Inputs of the handlers: deployments, events, upstream documents and     *)
(* network outcomes.                                                       *)

Variants == {"sixHourly", "bothHourly"}

ICN_LB == [name |-> "ICN Load Balancer", status |-> "operational"]
TOKYO  == [name |-> "Tokyo Cache", status |-> "major_outage"]
SEOUL  == [name |-> "Seoul Node", status |-> "degraded_performance",
           description |-> "Edge node"]

\* Documents served at /status.json.
StatusDocs ==
    {[status |-> [description |-> "All Systems Operational"]],
     [status |-> [description |-> "All Systems Operational"], components |-> <<ICN_LB>>],
     [status |-> [description |-> "Partial System Outage"], components |-> <<TOKYO, SEOUL>>]}

\* Documents served at /components.json.
ComponentsDocs == {[components |-> <<ICN_LB>>]}

INCIDENT ==
    [name |-> "API errors in Frankfurt", status |-> "investigating", impact |-> "minor",
     incident_updates |-> <<[status |-> "investigating", body |-> "We are investigating",
                             created_at |-> "2025-01-01T00:00:00Z"]>>,
     components |-> <<[name |-> "Frankfurt Gateway"]>>]

\* Documents served at /incidents/unresolved.json.
IncidentsDocs ==
    {[page |-> "cloudflare"], [incidents |-> <<>>], [incidents |-> <<INCIDENT>>]}

Upstreams ==
    {(COMPONENTS_URL :> c) @@ (STATUS_URL :> s) @@ (INCIDENTS_URL :> i) :
        c \in ComponentsDocs, s \in StatusDocs, i \in IncidentsDocs}

\* How a request ends: an HTTP status, or 0 when fetch rejects.
UpstreamCodes == {200, 503, 0}
WebhookCodes  == {200, 500, 0}

Nets ==
    {("components" :> a) @@ ("status" :> b) @@ ("incidents" :> c)
       @@ ("webhook:components" :> d) @@ ("webhook:incidents" :> e) :
        a \in UpstreamCodes, b \in UpstreamCodes, c \in UpstreamCodes,
        d \in WebhookCodes, e \in WebhookCodes}

Worlds == {[upstream |-> u, net |-> n, now |-> "2025-01-01T00:00:00.000Z"] :
              u \in Upstreams, n \in Nets}

Envs == {[ENVIRONMENT |-> "production"],
         [ENVIRONMENT |-> "production",
          SLACK_WEBHOOK_URL |-> "https://hooks.slack.com/services/T/B/X"]}

Crons == {"0 */6 * * *", "0 * * * *"}

Methods == {"GET", "OPTIONS", "POST"}
Paths == {"/", "/check/components", "/check/incidents", "/check/all",
          "/api/Check/Components"}
Requests == {[method |-> m, path |-> p] : m \in Methods, p \in Paths}

Idle == [kind |-> "none"]

-----------------------------------------------------------------------------
(* The Worker: one event at a time is handled to completion; nothing is    *)
(* kept from one invocation to the next.                                   *)

Init ==
    /\ variant \in Variants
    /\ invocation = Idle
    /\ world = Idle
    /\ trace = <<>>
    /\ outcome = Idle
    /\ input = Idle
    /\ output = Idle

\* A cron trigger fires and the scheduled handler runs to completion.
Scheduled ==
    /\ invocation = Idle
    /\ \E cron \in Crons, env \in Envs, w \in Worlds :
         \E r \in {handleScheduled(variant, [cron |-> cron], env, w)} :
         /\ invocation' = [kind |-> "scheduled", cron |-> cron, env |-> env]
         /\ world' = w
         /\ trace' = r.trace
         /\ outcome' = IF r.threw THEN [kind |-> "rejected", error |-> r.error]
                       ELSE [kind |-> "fulfilled"]
    /\ UNCHANGED <<variant, input, output>>

\* An HTTP request arrives and the fetch handler runs to completion.
Fetch ==
    /\ invocation = Idle
    /\ \E request \in Requests, env \in Envs, w \in Worlds :
         \E r \in {handleFetch(variant, request, env, w)} :
         /\ invocation' = [kind |-> "fetch", request |-> request, env |-> env]
         /\ world' = w
         /\ trace' = r.trace
         /\ outcome' = IF r.threw THEN [kind |-> "rejected", error |-> r.error]
                       ELSE [kind |-> "response", response |-> r.value]
    /\ UNCHANGED <<variant, input, output>>

\* sendSlackNotification is called on its own (it is exported): the upstream
\* part of the world plays no role, the webhook's answer does.
NotifyTypes == {"components", "incidents", "alerts"}
NotifyData ==
    {[status |-> [description |-> "Partial System Outage"], components |-> <<SEOUL>>],
     [incidents |-> <<INCIDENT>>]}
NotifyWorlds ==
    {[upstream |-> (COMPONENTS_URL :> [components |-> <<ICN_LB>>])
                   @@ (STATUS_URL :> [status |-> [description |-> "All Systems Operational"]])
                   @@ (INCIDENTS_URL :> [incidents |-> <<>>]),
      net |-> ("components" :> 200) @@ ("status" :> 200) @@ ("incidents" :> 200)
              @@ ("webhook:components" :> d) @@ ("webhook:incidents" :> e)
              @@ ("webhook:alerts" :> d),
      now |-> "2025-01-01T00:00:00.000Z"] :
        d \in WebhookCodes, e \in WebhookCodes}

Notify ==
    /\ invocation = Idle
    /\ \E env \in Envs, data \in NotifyData, type \in NotifyTypes, w \in NotifyWorlds :
         \E r \in {sendSlackNotification(env, data, type, w, <<>>)} :
         /\ invocation' = [kind |-> "notify", env |-> env, data |-> data, type |-> type]
         /\ world' = w
         /\ trace' = r.trace
         /\ outcome' = IF r.threw THEN [kind |-> "rejected", error |-> r.error]
                       ELSE [kind |-> "returned", value |-> r.value]
    /\ UNCHANGED <<variant, input, output>>

\* The runtime settles the invocation; its state is dropped.
Settle ==
    /\ invocation # Idle
    /\ invocation' = Idle
    /\ world' = Idle
    /\ trace' = <<>>
    /\ outcome' = Idle
    /\ UNCHANGED <<variant, input, output>>

Next == Scheduled \/ Fetch \/ Notify \/ Settle

Spec == Init /\ [][Next]_vars

-----------------------------------------------------------------------------------------------------------------------------------------------------
(* The filter and the two formatters on their own: Init draws an argument, *)
(* the call computes the result.                                           *)

MaxComponents == 2   \* longest components list
MaxIncidents  == 2   \* longest incidents list
MaxUpdates    == 5   \* most updates of one incident

SeqsUpTo(S, n) == UNION {[1..k -> S] : k \in 0..n}

FilterNames == {"ICN Load Balancer", "Tokyo Cache", "Picnic Router"}
FilterDescriptions == {"Located in SEOUL", "Edge node"}
FilterComponents ==
    {[name |-> n, status |-> "operational"] : n \in FilterNames}
    \cup {[name |-> n, status |-> "operational", description |-> d] :
             n \in FilterNames, d \in FilterDescriptions}

KeywordLists == {ICN_KEYWORDS, <<>>, <<"seoul">>, <<"korea", "tokyo">>}

FilterInputs ==
    {[fn |-> "filterForICN",
      data |-> [status |-> [description |-> "All Systems Operational"], components |-> cs],
      keywords |-> K] :
        cs \in SeqsUpTo(FilterComponents, MaxComponents), K \in KeywordLists}

StatusTokens ==
    {"operational", "degraded_performance", "major_outage", "under_maintenance",
     "partial_service_outage"}
LineNames == {"Seoul Node", "ICN Load Balancer"}
LineComponents == {[name |-> n, status |-> st] : n \in LineNames, st \in StatusTokens}

ComponentsInputs ==
    {[fn |-> "formatComponentsPayload", data |-> d, now |-> "2025-01-01T00:00:00.000Z"] :
        d \in {[status |-> [description |-> "Partial System Outage"], components |-> cs] :
                  cs \in SeqsUpTo(LineComponents, MaxComponents)}
              \cup {[components |-> <<>>],
                    [status |-> [description |-> "All Systems Operational"]]}}

\* Update i of incident j; bodies are distinct.
Update(j, i) ==
    [status |-> IF i = 1 THEN "monitoring" ELSE "investigating",
     body |-> "incident " \o ToString(j) \o " update " \o ToString(i),
     created_at |-> "2025-01-01T0" \o ToString(i) \o ":00:00Z"]

\* Incident j with n updates (n = -1: no incident_updates property), with or
\* without affected components.
Incident(j, n, affected) ==
    LET base == [name |-> "Incident " \o ToString(j), status |-> "investigating"]
        ups == IF n < 0 THEN base
               ELSE base @@ [incident_updates |-> [i \in 1..n |-> Update(j, i)]]
    IN  IF affected THEN ups @@ [components |-> <<[name |-> "Seoul Node"]>>] ELSE ups

IncidentLists ==
    UNION {{[j \in 1..k |-> Incident(j, n[j], a[j])] :
               n \in [1..k -> -1..MaxUpdates], a \in [1..k -> BOOLEAN]} :
           k \in 0..MaxIncidents}

IncidentsInputs ==
    {[fn |-> "formatIncidentsPayload", data |-> [incidents |-> is],
      now |-> "2025-01-01T00:00:00.000Z"] : is \in IncidentLists}
    \cup {[fn |-> "formatIncidentsPayload", data |-> [page |-> "cloudflare"],
           now |-> "2025-01-01T00:00:00.000Z"]}

InitFn ==
    /\ variant = "none"
    /\ invocation = Idle
    /\ world = Idle
    /\ trace = <<>>
    /\ outcome = Idle
    /\ input \in FilterInputs \cup ComponentsInputs \cup IncidentsInputs
    /\ output = Idle

\* filterForICN is applied; dataAfter is the caller's object after the call.
CallFilter ==
    /\ input.fn = "filterForICN"
    /\ output = Idle
    /\ \E r \in {filterByKeywords(input.data, input.keywords)} :
          output' = [fn |-> input.fn, filteredData |-> r.filteredData, dataAfter |-> r.data]
    /\ UNCHANGED <<variant, invocation, world, trace, outcome, input>>

CallFormatComponents ==
    /\ input.fn = "formatComponentsPayload"
    /\ output = Idle
    /\ output' = [fn |-> input.fn, payload |-> formatComponentsPayload(input.data, input.now)]
    /\ UNCHANGED <<variant, invocation, world, trace, outcome, input>>

CallFormatIncidents ==
    /\ input.fn = "formatIncidentsPayload"
    /\ output = Idle
    /\ output' = [fn |-> input.fn, payload |-> formatIncidentsPayload(input.data, input.now)]
    /\ UNCHANGED <<variant, invocation, world, trace, outcome, input>>

NextFn == CallFilter \/ CallFormatComponents \/ CallFormatIncidents

SpecFn == InitFn /\ [][NextFn]_vars

-----
(* Observations on the invocation in the current state. *)

Entered(name) == \E i \in 1..Len(trace) : trace[i] = CheckEntered(name)

\* Positions of the events of one check: from its entry to the next entry.
SegmentOf(name) ==
    {j \in 1..Len(trace) :
        \E i \in 1..j :
            /\ trace[i] = CheckEntered(name)
            /\ \A k \in (i + 1)..j : trace[k].type # "check"}

PostsIn(name) ==
    {j \in SegmentOf(name) : trace[j].type = "fetch" /\ trace[j].method = "POST"}

RequestsIn(name, site) ==
    {j \in SegmentOf(name) : trace[j].type = "fetch" /\ trace[j].site = site}

Logged(label) == \E i \in 1..Len(trace) : trace[i] = ConsoleError(label)

Configured(env) == Str(env, "SLACK_WEBHOOK_URL") # ""

Success(code) == code \in 200..299
HttpFailure(code) == code # 0 /\ ~Success(code)

\* The upstream calls of a check all answered with success.
UpstreamOk(name) ==
    IF name = "components"
    THEN Success(world.net["components"]) /\ Success(world.net["status"])
    ELSE Success(world.net["incidents"])

\* The invocation ended in an error that carries the HTTP status code, and
\* handed out no data.
FailedWith(code) ==
    \/ /\ outcome.kind = "rejected"
       /\ includes(outcome.error.message, ToString(code))
    \/ /\ outcome.kind = "response"
       /\ outcome.response.status = 500
       /\ DOMAIN outcome.response.body = {"error", "message"}
       /\ includes(outcome.response.body.message, ToString(code))

IsGet(path) ==
    /\ invocation.kind = "fetch"
    /\ invocation.request.method = "GET"
    /\ endsWith(toLowerCase(invocation.request.path), path)

\* The event runs both checks: a firing of the bothHourly version, or GET /check/all.
RunsBothChecks ==
    /\ variant = "bothHourly"
    /\ invocation.kind = "scheduled" \/ IsGet("/check/all")

-----------------------------------------------------------------------------
(* C1: when one event runs both checks, each of the two checks is started, *)
(* whatever the upstream answers: a failed components check does not stop  *)
(* the incidents check.                                                    *)
C1_EachCheckStarted ==
    RunsBothChecks => Entered("components") /\ Entered("incidents")

(* C2: a scheduled run never ends in a thrown error (an upstream failure   *)
(* is logged and swallowed), while on a manual check the same failure      *)
(* gives a 500 response with error and message fields.                     *)
C2_ScheduledSwallowsHttpReports ==
    /\ invocation.kind = "scheduled" => outcome.kind = "fulfilled"
    /\ invocation.kind = "fetch" =>
          /\ outcome.kind = "response"
          /\ \A name \in {"components", "incidents"} :
                Entered(name) /\ ~UpstreamOk(name) =>
                    /\ outcome.response.status = 500
                    /\ DOMAIN outcome.response.body = {"error", "message"}

(* C3: a non-success HTTP answer to an upstream call of a check fails the  *)
(* check with an error carrying the status, no data is returned and no     *)
(* webhook POST is made in that check; after a failed components request   *)
(* the status document is not requested.                                   *)
C3_UpstreamFailureFailsCheck ==
    /\ Entered("components") /\ HttpFailure(world.net["components"]) =>
          /\ FailedWith(world.net["components"])
          /\ PostsIn("components") = {}
          /\ RequestsIn("components", "status") = {}
    /\ Entered("components") /\ Success(world.net["components"])
          /\ HttpFailure(world.net["status"]) =>
          /\ FailedWith(world.net["status"])
          /\ PostsIn("components") = {}
    /\ Entered("incidents") /\ HttpFailure(world.net["incidents"]) =>
          /\ FailedWith(world.net["incidents"])
          /\ PostsIn("incidents") = {}

C3_Witness ==
    /\ IsGet("/check/components")
    /\ world.net["components"] = 503
    /\ outcome.kind = "response"
    /\ outcome.response.status = 500
    /\ Cardinality(RequestsIn("components", "components")) = 1

\* The snapshot the components check works on: what the client fetches,
\* merged and filtered.
FetchedSnapshot ==
    filterForICN(Combine(world.upstream[API_BASE_URL \o "/status.json"],
                         world.upstream[ENDPOINTS.components])).filteredData

EnteredChecks == {name \in {"components", "incidents"} : Entered(name)}

\* The result object of a check in the body of a 200 response.
ResultIn(body, name) ==
    IF Has(body, "components") /\ Has(body, "incidents") THEN body[name] ELSE body

(* C4: a webhook delivery failure never changes a check's outcome: when    *)
(* the upstream calls of the checks succeed, each check returns status     *)
(* "success" with its data, whether the webhook URL is missing, the POST   *)
(* fails in the network or the webhook answers non-success; and            *)
(* sendSlackNotification returns false in those cases and never throws.    *)
C4_DeliveryFailureKeepsOutcome ==
    /\ /\ invocation.kind = "fetch"
       /\ EnteredChecks # {}
       /\ \A name \in EnteredChecks : UpstreamOk(name)
       => /\ outcome.kind = "response"
          /\ outcome.response.status = 200
          /\ \A name \in EnteredChecks :
                LET result == ResultIn(outcome.response.body, name) IN
                /\ result.status = "success"
                /\ Has(result, "data")
                /\ result.data = IF name = "components" THEN FetchedSnapshot
                                 ELSE world.upstream[ENDPOINTS.incidents]
    /\ /\ invocation.kind = "scheduled"
       /\ \A name \in EnteredChecks : UpstreamOk(name)
       => outcome.kind = "fulfilled"
    /\ invocation.kind = "notify" =>
          /\ outcome.kind = "returned"
          /\ ~Configured(invocation.env)
                \/ ~Success(world.net["webhook:" \o invocation.type])
             => outcome.value = FALSE

C4_Witness ==
    /\ IsGet("/check/incidents")
    /\ Configured(invocation.env)
    /\ world.net["webhook:incidents"] = 500
    /\ PostsIn("incidents") # {}
    /\ Logged("Error sending Slack notification:")
    /\ outcome.kind = "response"
    /\ outcome.response.status = 200
    /\ outcome.response.body.status = "success"

(* C5: a components check attempts a webhook POST only if at least one of  *)
(* the keyword-filtered components has a status other than 'operational'   *)
(* (the reported hasIssues); none when all are operational or the filtered *)
(* list is empty.                                                          *)
C5_PostOnlyOnIssues ==
    Entered("components") =>
        /\ PostsIn("components") # {} => HasIssues(FetchedSnapshot)
        /\ IsGet("/check/components") /\ outcome.response.status = 200 =>
              outcome.response.body.hasIssues = HasIssues(FetchedSnapshot)

\* The unresolved-incidents listing served upstream.
Listing == world.upstream[ENDPOINTS.incidents]
ListingNonEmpty == Has(Listing, "incidents") /\ Len(Listing.incidents) > 0

\* The incidents check ran with its listing fetched.
IncidentsFetched == Entered("incidents") /\ Success(world.net["incidents"])

\* What the incidents check reports, where the invocation hands it out.
IncidentsReport ==
    invocation.kind = "fetch" /\ outcome.response.status = 200 =>
        LET result == ResultIn(outcome.response.body, "incidents") IN
        /\ result.incidentsCount =
              (IF Has(Listing, "incidents") THEN Len(Listing.incidents) ELSE 0)
        /\ result.data = Listing

(* C6 as stated: an incidents check attempts a webhook POST if and only if *)
(* the fetched listing is non-empty; for an empty or absent list no POST   *)
(* is made and incidentsCount is 0; incidents are not filtered by keyword. *)
C6_PostIffIncidents ==
    IncidentsFetched =>
        /\ PostsIn("incidents") # {} <=> ListingNonEmpty
        /\ IncidentsReport

(* C6 as amended: the notifier is called if and only if the fetched        *)
(* listing is non-empty, and a webhook POST is attempted if and only if    *)
(* the listing is non-empty and a webhook URL is configured; for an empty  *)
(* or absent list no POST is made and incidentsCount is 0; the listing is  *)
(* reported and notified unfiltered.                                       *)
C6_PostIffIncidentsAndUrl ==
    IncidentsFetched =>
        /\ PostsIn("incidents") # {}
              <=> ListingNonEmpty /\ Configured(invocation.env)
        /\ (\E j \in SegmentOf("incidents") :
                trace[j] = ConsoleError("Slack webhook URL not configured"))
              <=> ListingNonEmpty /\ ~Configured(invocation.env)
        /\ Cardinality(PostsIn("incidents")) <= 1
        /\ IncidentsReport

C6_Witness ==
    /\ IsGet("/check/incidents")
    /\ IncidentsFetched
    /\ ListingNonEmpty
    /\ \A i \in 1..Len(Listing.incidents), k \in 1..Len(ICN_KEYWORDS) :
          ~includes(toLowerCase(Listing.incidents[i].name), ICN_KEYWORDS[k])
    /\ Configured(invocation.env)
    /\ PostsIn("incidents") # {}
    /\ outcome.response.body.incidentsCount = 1

-----------------------------------------------------------------------------
(* Claims about the filter and the formatters, under SpecFn. *)

startsWith(s, k) == Len(k) <= Len(s) /\ SubSeq(s, 1, Len(k)) = k

\* The name or the description contains a keyword of K, letter case ignored.
MatchesKeyword(component, K) ==
    LET description == IF Has(component, "description") THEN component.description ELSE ""
    IN  \E k \in 1..Len(K) :
           \/ includes(toLowerCase(component.name), toLowerCase(K[k]))
           \/ includes(toLowerCase(description), toLowerCase(K[k]))

\* The j-th smallest element of a set of positions.
Nth(S, j) == CHOOSE i \in S : Cardinality({m \in S : m <= i}) = j

IsUpdateEntry(block) ==
    /\ block.type = "section"
    /\ startsWith(block.text, "*Latest Update:*") \/ startsWith(block.text, "*Update ")

IsTruncationNote(block) ==
    /\ block.type = "context"
    /\ endsWith(block.text, " more updates not shown_")

UpdatesOf(incident) ==
    IF Has(incident, "incident_updates") THEN incident.incident_updates ELSE <<>>

\* The bodies of the first min(n, 3) updates of each incident, in order.
ShownBodies(incidents) ==
    Flatten([j \in 1..Len(incidents) |->
                [i \in 1..(IF Len(UpdatesOf(incidents[j])) < 3
                           THEN Len(UpdatesOf(incidents[j])) ELSE 3) |->
                    UpdatesOf(incidents[j])[i].body]])

\* The notes "(n-3) more updates not shown" of the incidents with n > 3, in order.
ExpectedNotes(incidents) ==
    Flatten([j \in 1..Len(incidents) |->
                IF Len(UpdatesOf(incidents[j])) > 3
                THEN <<"_" \o ToString(Len(UpdatesOf(incidents[j])) - 3)
                           \o " more updates not shown_">>
                ELSE <<>>])

(* C9: for an incident with n updates the incidents message renders        *)
(* exactly min(n, 3) update entries, the first three in upstream order,    *)
(* and a note "(n-3) more updates not shown" if and only if n > 3; with    *)
(* n = 0 no timeline section is rendered.                                  *)
C9_TimelineTruncated ==
    output # Idle /\ output.fn = "formatIncidentsPayload" /\ Has(input.data, "incidents") =>
        LET incidents == input.data.incidents
            blocks == output.payload.blocks
            entries == SelectSeq(blocks, IsUpdateEntry)
            notes == SelectSeq(blocks, IsTruncationNote)
            shown == ShownBodies(incidents)
            expected == ExpectedNotes(incidents)
            IsTimelineHead(block) == block = Section("*Incident Timeline:*")
        IN  /\ Len(entries) = Len(shown)
            /\ \A k \in 1..Len(entries) : endsWith(entries[k].text, "\n" \o shown[k])
            /\ Len(notes) = Len(expected)
            /\ \A k \in 1..Len(notes) : notes[k].text = expected[k]
            /\ Len(SelectSeq(blocks, IsTimelineHead))
                  = Cardinality({j \in 1..Len(incidents) : Len(UpdatesOf(incidents[j])) > 0})

C9_Witness ==
    /\ output # Idle /\ output.fn = "formatIncidentsPayload"
    /\ Has(input.data, "incidents")
    /\ Len(input.data.incidents) = 1
    /\ Len(UpdatesOf(input.data.incidents[1])) = 5
    /\ Len(SelectSeq(output.payload.blocks, IsUpdateEntry)) = 3
    /\ \E k \in 1..Len(output.payload.blocks) :
          output.payload.blocks[k] = Context("_2 more updates not shown_")

\* Every occurrence of the character c in s replaced by d.
RECURSIVE ReplaceEvery(_, _, _)
ReplaceEvery(s, c, d) ==
    IF Len(s) = 0 THEN ""
    ELSE (IF CharAt(s, 1) = c THEN d ELSE CharAt(s, 1))
         \o ReplaceEvery(SubSeq(s, 2, Len(s)), c, d)

GlyphOf(status) ==
    IF status = "operational" THEN GLYPH_OK
    ELSE IF status = "degraded_performance" THEN GLYPH_WARNING
    ELSE GLYPH_ERROR

(* C10: the components message has exactly one line per filtered           *)
(* component, in order; the line shows the ok glyph iff the status is      *)
(* 'operational', the warning glyph iff it is 'degraded_performance', the  *)
(* error glyph otherwise, then the status with every underscore rendered   *)
(* as a space; an empty list renders a 'no components found' line.         *)
C10_OneLinePerComponent ==
    output # Idle /\ output.fn = "formatComponentsPayload" =>
        LET cs == IF Has(input.data, "components") THEN input.data.components ELSE <<>>
            blocks == output.payload.blocks
            IsLine(block) ==
                /\ block.type = "section"
                /\ \E g \in {GLYPH_OK, GLYPH_WARNING, GLYPH_ERROR} : startsWith(block.text, g)
            lines == SelectSeq(blocks, IsLine)
            IsNone(block) == block = Section("_No ICN components found_")
        IN  /\ Len(lines) = Len(cs)
            /\ \A i \in 1..Len(cs) :
                  lines[i].text = GlyphOf(cs[i].status) \o " *" \o cs[i].name \o "*: "
                                  \o ReplaceEvery(cs[i].status, "_", " ")
            /\ Len(SelectSeq(blocks, IsNone)) = (IF cs = <<>> THEN 1 ELSE 0)

-----------------------------------------------------------------------------
(* C8: the snapshot of fetchICNComponentsStatus takes its overall status   *)
(* from the status document and its components, keyword-filtered, from the *)
(* components listing: a status document "All Systems Operational" and a   *)
(* listing with the one operational component "ICN Load Balancer" give a   *)
(* snapshot with that description and exactly that component.              *)
C8_ComponentsFromListing ==
    IsGet("/check/components") /\ outcome.response.status = 200 =>
        LET statusDocument == world.upstream[STATUS_URL]
            listing == world.upstream[COMPONENTS_URL]
            snapshot == outcome.response.body.data
        IN  /\ snapshot.status = statusDocument.status
            /\ snapshot.components
                  = filterForICN([components |-> listing.components]).filteredData.components
            /\ /\ statusDocument = [status |-> [description |-> "All Systems Operational"]]
               /\ listing = [components |-> <<ICN_LB>>]
               => /\ snapshot.status.description = "All Systems Operational"
                  /\ snapshot.components = <<ICN_LB>>

-----------------------------------------------------------------------------
(* Observations on an HTTP invocation. *)

\* The request path as the router compares it.
RoutedPath == toLowerCase(invocation.request.path)

\* The invocation made no request and entered no check.
NothingRan ==
    /\ trace = <<>>
    /\ outcome.kind = "response"

\* The response is the static status payload.
StaticPayload ==
    /\ outcome.kind = "response"
    /\ outcome.response.status = 200
    /\ outcome.response.body = StatusPage

\* What holds of every request that is not a GET.
NonGetRefused ==
    /\ invocation.request.method \notin {"GET", "OPTIONS"} =>
          outcome.kind = "response" /\ outcome.response.status = 405
    /\ invocation.request.method # "GET" => NothingRan

(* C11 as stated: a method other than GET and OPTIONS is answered 405, and *)
(* no request other than a GET runs a check, makes an upstream request or  *)
(* a webhook POST; a GET runs the components check exactly for a path      *)
(* ending in /check/components, the incidents check exactly for a path     *)
(* ending in /check/incidents, and any other path gets the static status   *)
(* payload with no check run.                                              *)
C11_MethodsAndRoutes ==
    invocation.kind = "fetch" =>
        /\ NonGetRefused
        /\ invocation.request.method = "GET" =>
              /\ Entered("components") <=> endsWith(RoutedPath, "/check/components")
              /\ Entered("incidents") <=> endsWith(RoutedPath, "/check/incidents")
              /\ ~endsWith(RoutedPath, "/check/components")
                    /\ ~endsWith(RoutedPath, "/check/incidents")
                 => StaticPayload /\ NothingRan

\* The route a GET takes: the first suffix that matches, /check/all being a
\* route of the bothHourly version only.
RouteOf(path) ==
    IF endsWith(path, "/check/components") THEN "components"
    ELSE IF endsWith(path, "/check/incidents") THEN "incidents"
    ELSE IF variant = "bothHourly" /\ endsWith(path, "/check/all") THEN "all"
    ELSE "none"

(* C11 as amended: as stated for the methods; a GET runs the components    *)
(* check exactly for a path ending in /check/components or, in the         *)
(* bothHourly version, in /check/all; it runs the incidents check exactly  *)
(* for a path ending in /check/incidents or, in the bothHourly version, in *)
(* /check/all once the components check has ended without an error; any    *)
(* other path gets the static status payload with no check run.            *)
C11_MethodsAndRoutesWithAll ==
    invocation.kind = "fetch" =>
        /\ NonGetRefused
        /\ invocation.request.method = "GET" =>
              LET route == RouteOf(RoutedPath) IN
              /\ Entered("components") <=> route \in {"components", "all"}
              /\ Entered("incidents") <=>
                    \/ route = "incidents"
                    \/ /\ route = "all"
                       /\ ~Logged("Error checking ICN components status:")
              /\ route = "none" => StaticPayload /\ NothingRan

\* A POST to a check route is refused with 405 and nothing has run, while
\* the upstream would have answered.
C11_Witness ==
    /\ invocation.kind = "fetch"
    /\ invocation.request = [method |-> "POST", path |-> "/check/components"]
    /\ outcome.kind = "response"
    /\ outcome.response.status = 405
    /\ UpstreamOk("components")
    /\ trace = <<>>

-----------------------------------------------------------------------------
(* Observations on a direct call of sendSlackNotification. *)

\* The webhook POSTs of the invocation.
Posts == {j \in 1..Len(trace) : trace[j].type = "fetch" /\ trace[j].method = "POST"}

\* The call was made with a type that has no formatter.
UnknownTypeRequested ==
    /\ invocation.kind = "notify"
    /\ invocation.type \notin {"components", "incidents"}

(* C12: a notification requested with a type other than 'components' or    *)
(* 'incidents' fails loudly: the call of sendSlackNotification ends in the *)
(* unknown-type error, not in the ordinary 'not sent' result false, and no *)
(* webhook POST is made.                                                   *)
C12_UnknownTypeFailsLoudly ==
    UnknownTypeRequested =>
        /\ outcome.kind = "rejected"
        /\ outcome.error = Error("Unknown notification type: " \o invocation.type)
        /\ Posts = {}

-----------------------------------------------------------------------------
(* Observations on a scheduled invocation. *)

\* The endpoints of the status API.
UpstreamEndpoints == {COMPONENTS_URL, STATUS_URL, INCIDENTS_URL}

Checks == {"components", "incidents"}

\* Positions at which a check is entered.
EntriesOf(name) == {i \in 1..Len(trace) : trace[i] = CheckEntered(name)}

\* The upstream requests of one check to one endpoint.
RequestsTo(name, url) ==
    {j \in SegmentOf(name) :
        /\ trace[j].type = "fetch"
        /\ trace[j].method = "GET"
        /\ trace[j].url = url}

\* The components check ended by returning its result.
ComponentsCompleted ==
    /\ Entered("components")
    /\ ~Logged("Error checking ICN components status:")

\* The checks of the firing's schedule were run, and nothing else.
RunsChecksOfSchedule ==
    /\ \A name \in Checks : Cardinality(EntriesOf(name)) <= 1
    /\ \A j \in 1..Len(trace) : \E name \in Checks : j \in SegmentOf(name)
    /\ variant = "sixHourly" =>
          EnteredChecks = (IF includes(invocation.cron, "*/6")
                           THEN {"components"} ELSE {"incidents"})
    /\ variant = "bothHourly" =>
          /\ Entered("components")
          /\ ComponentsCompleted => Entered("incidents")
          /\ \A i \in EntriesOf("incidents") :
                \A j \in SegmentOf("components") : j < i

(* C13: a scheduled firing runs the checks of its schedule and nothing     *)
(* else: in the sixHourly version exactly the components check when the    *)
(* cron expression contains '*/6' and exactly the incidents check          *)
(* otherwise; in the bothHourly version the components check and, once it  *)
(* has completed, the incidents check.  Within each check every upstream   *)
(* endpoint is requested at most once and at most one webhook POST is      *)
(* made.                                                                   *)
C13_FiringRunsScheduleOnce ==
    invocation.kind = "scheduled" =>
        /\ RunsChecksOfSchedule
        /\ \A name \in Checks :
              /\ \A url \in UpstreamEndpoints : Cardinality(RequestsTo(name, url)) <= 1
              /\ Cardinality(PostsIn(name)) <= 1

====
